---- MODULE Spec2Model ----
(***************************************************************************)
(* django_cache_wrapper.py: the cache_result decorator and                 *)
(* generate_cache_key_for_method.                                          *)
(*                                                                         *)
(* Python values are modelled by their repr as strings: None is "None",    *)
(* the integer 5 is "5", the string s is "'s'".  An Optional parameter is  *)
(* a sequence: <<>> is None and <<x>> is the value x.                      *)
(*                                                                         *)
(* A call of the wrapper is a frame that moves from one external           *)
(* interaction to the next (settings read, backend lookup, Backend.get,    *)
(* func, Backend.set); the pure steps between two interactions (key        *)
(* derivation, cache_filter) belong to the action of the interaction that  *)
(* precedes them.  Each frame keeps a log of the interactions it made.     *)
(***************************************************************************)
EXTENDS Integers, Sequences, FiniteSets, TLC

VARIABLES
    cache_key,         \* decorator parameter, Optional[str]
    cache_kwarg_keys,  \* decorator parameter, Optional[List[str]]
    seconds,           \* decorator parameter, the timeout of a stored entry
    cache_filter,      \* decorator parameter, the name of the filter function
    USE_CACHE,         \* settings.USE_CACHE, process-wide and mutable
    hashSeed,          \* the hash seed of the process each caller runs in
    cache,             \* the backend behind caches[cache_setup]: key -> entry
    frame,             \* per caller: the wrapper's frame and its log
    calls              \* number of calls of the wrapper started so far

vars == <<cache_key, cache_kwarg_keys, seconds, cache_filter, USE_CACHE,
          hashSeed, cache, frame, calls>>

config == <<cache_key, cache_kwarg_keys, seconds, cache_filter, hashSeed>>

-----------------------------------------------------------------------------
(* Bounds and input domains *)

MaxCalls == 2

Callers == {1, 2}

\* each caller runs in a process of its own, started with its own hash seed
ProcessSeed == [c \in Callers |-> IF c = 1 THEN 7 ELSE 11]

None == "None"

NoneOpt == <<>>

Some(x) == <<x>>

\* func.__module__ and func.__name__ of the wrapped function
FuncModule == "app"

FuncName == "add"

\* values func can return
FuncValues == {None, "-8", "5"}

\* values another client of the backend can have stored under a key
OtherValues == {"-8", "'s'"}

\* exceptions (subclasses of Exception) func can raise
FuncErrors == {"ErrA"}

\* the decorator parameters a function can be wrapped with
CacheKeys == {NoneOpt, Some(""), Some("k")}

CacheKwargKeys == {NoneOpt, Some(<<"a", "b">>)}

Timeouts == {60}

Filters == {"always", "nonneg"}

\* the timeouts other clients of the backend store their entries with
OtherTimeouts == {30}

\* the (args, kwargs) a caller can pass; kwargs is a dict in insertion order
CallArgs ==
    { [args |-> <<>>,    kwargs |-> <<>>],
      [args |-> <<"1">>, kwargs |-> <<>>],
      [args |-> <<>>,    kwargs |-> << <<"a", None>> >>],
      [args |-> <<>>,    kwargs |-> << <<"a", "1">>, <<"b", "1">> >>],
      [args |-> <<>>,    kwargs |-> << <<"b", "1">>, <<"a", "1">> >>],
      [args |-> <<"1">>, kwargs |-> << <<"a", "1">> >>] }

-----------------------------------------------------------------------------
(* cache_filter: (value) -> bool, or an exception *)

\* lambda x: True, the default
FilterAlways(x) == "True"

\* lambda x: x is not None and x >= 0; it is defined on every value func
\* returns, and comparing a str with 0 raises TypeError
FilterNonNeg(x) ==
    CASE x = None -> "False"
      [] x = "-8" -> "False"
      [] x = "5" -> "True"
      [] OTHER -> "raise"

ApplyFilter(f, x) == IF f = "always" THEN FilterAlways(x) ELSE FilterNonNeg(x)

-----------------------------------------------------------------------------
(* pickle.dumps, protocol 4, for None, small ints, one-character strings,  *)
(* lists, tuples and dicts of them                                         *)

RECURSIVE Flatten(_)
Flatten(ss) == IF ss = <<>> THEN <<>> ELSE Head(ss) \o Flatten(Tail(ss))

IntOf(x) == CASE x = "1" -> 1 [] x = "2" -> 2 [] x = "5" -> 5

OrdOf(s) == CASE s = "a" -> 97 [] s = "b" -> 98

\* NONE, or BININT1 n
PickleValue(x) == IF x = None THEN <<78>> ELSE <<75, IntOf(x)>>

\* SHORT_BINUNICODE 1 ch, MEMOIZE
PickleStr(s) == <<140, 1, OrdOf(s), 148>>

\* EMPTY_LIST MEMOIZE, then APPEND or MARK .. APPENDS
PickleList(xs) ==
    LET items == Flatten([i \in 1..Len(xs) |-> PickleValue(xs[i])])
    IN  <<93, 148>> \o
        (CASE Len(xs) = 0 -> <<>>
           [] Len(xs) = 1 -> items \o <<97>>
           [] OTHER -> <<40>> \o items \o <<101>>)

\* items, then TUPLE1 / TUPLE2 / TUPLE3 and MEMOIZE; EMPTY_TUPLE for ()
PickleTuple(xs) ==
    LET items == Flatten([i \in 1..Len(xs) |-> PickleValue(xs[i])])
    IN  IF Len(xs) = 0 THEN <<41>> ELSE items \o <<132 + Len(xs), 148>>

\* EMPTY_DICT MEMOIZE, then SETITEM or MARK .. SETITEMS, in insertion order
PickleDict(kv) ==
    LET items == Flatten([i \in 1..Len(kv) |->
                            PickleStr(kv[i][1]) \o PickleValue(kv[i][2])])
    IN  <<125, 148>> \o
        (CASE Len(kv) = 0 -> <<>>
           [] Len(kv) = 1 -> items \o <<115>>
           [] OTHER -> <<40>> \o items \o <<117>>)

\* PROTO 4, a FRAME header when the payload has 4 bytes or more, STOP
PickleDumps(body) ==
    LET payload == body \o <<46>>
    IN  <<128, 4>> \o
        (IF Len(payload) >= 4
            THEN <<149, Len(payload), 0, 0, 0, 0, 0, 0, 0>> ELSE <<>>) \o
        payload

-----------------------------------------------------------------------------
(* hash(bytes): seeded per process.  The width is cut to HashMod so that   *)
(* the arithmetic stays inside the model checker's integers.               *)

HashMult == 31

HashMod == 16777213

RECURSIVE HashFrom(_, _)
HashFrom(h, bytes) ==
    IF bytes = <<>> THEN h
    ELSE HashFrom((h * HashMult + Head(bytes)) % HashMod, Tail(bytes))

PyHash(seed, bytes) == HashFrom(seed, bytes)

-----------------------------------------------------------------------------
(* dict.get and generate_cache_key_for_method *)

RECURSIVE DictGet(_, _)
DictGet(kv, k) ==
    IF kv = <<>> THEN None
    ELSE IF Head(kv)[1] = k THEN Head(kv)[2] ELSE DictGet(Tail(kv), k)

\* truthiness of an Optional[str] / Optional[List[str]]
Truthy(opt) == opt # NoneOpt /\ Len(opt[1]) > 0

\* KeyRaises without the test of line 77
KeyNeverRaises(method_kwargs, method_args, kwarg_keys, key) == FALSE

\* lines 73-78: the ValueError of the cache_kwarg_keys mode
KeyRaises(method_kwargs, method_args, kwarg_keys, key) ==
    /\ ~Truthy(key)
    /\ Truthy(kwarg_keys)
    /\ method_args # <<>>

\* generate_cache_key_for_method with the fixed key followed by a hash of the
\* positional arguments
FixedKeyWithArgs(seed, method_kwargs, method_args, kwarg_keys, key) ==
    FuncModule \o "::" \o FuncName \o
    (IF Truthy(key) THEN "::" \o key[1] ELSE "") \o
    (IF method_args # <<>>
        THEN "::" \o ToString(PyHash(seed, PickleDumps(PickleTuple(method_args))))
        ELSE "")

\* lines 73-88; the hash is taken in the calling process, with its seed
generate_cache_key_for_method(seed, method_kwargs, method_args, kwarg_keys, key) ==
    IF Truthy(key)
    THEN FuncModule \o "::" \o FuncName \o "::" \o key[1]
    ELSE IF Truthy(kwarg_keys)
    THEN LET cache_values == [i \in 1..Len(kwarg_keys[1]) |->
                                 DictGet(method_kwargs, kwarg_keys[1][i])]
         IN  FuncModule \o "::" \o FuncName \o "::" \o
             ToString(PyHash(seed, PickleDumps(PickleList(cache_values))))
    ELSE FuncModule \o "::" \o FuncName \o
         (IF method_args # <<>>
             THEN "::" \o ToString(PyHash(seed, PickleDumps(PickleTuple(method_args))))
             ELSE "") \o
         (IF method_kwargs # <<>>
             THEN "::" \o ToString(PyHash(seed, PickleDumps(PickleDict(method_kwargs))))
             ELSE "")

-----------------------------------------------------------------------------
(* The backend behind caches[cache_setup] *)

\* cache_conn.get(key): the stored value, or None when nothing is stored
BackendGet(key) == IF key \in DOMAIN cache THEN cache[key].value ELSE None

\* BackendSet that drops every other entry of the backend
BackendSetAlone(key, value, timeout) ==
    [k \in {key} |-> [value |-> value, timeout |-> timeout]]

\* cache_conn.set(key, value, timeout)
BackendSet(key, value, timeout) ==
    [k \in DOMAIN cache \cup {key} |->
        IF k = key THEN [value |-> value, timeout |-> timeout] ELSE cache[k]]

-----------------------------------------------------------------------------
(* The wrapper's frame and the log of its interactions *)

Event(op, key, val, res, err, ttl) ==
    [op |-> op, key |-> key, val |-> val, res |-> res, err |-> err, ttl |-> ttl]

NoOutcome == [kind |-> "none", val |-> ""]

Returned(v) == [kind |-> "return", val |-> v]

Raised(e) == [kind |-> "raise", val |-> e]

IdleFrame ==
    [pc |-> "idle", args |-> <<>>, kwargs |-> <<>>, enabled |-> FALSE,
     final_cache_key |-> "", result |-> None, log |-> <<>>,
     outcome |-> NoOutcome]

\* what a call of func can do: return a value or raise an exception
FuncOutcomes ==
    {[res |-> v, err |-> ""] : v \in FuncValues} \cup
    {[res |-> "raise", err |-> e] : e \in FuncErrors}

FuncEvent(o) == Event("func", "", "", o.res, o.err, 0)

FilterEvent(x) ==
    LET r == ApplyFilter(cache_filter, x)
    IN  Event("filter", "", x, r, IF r = "raise" THEN "TypeError" ELSE "", 0)

GetEvent(key, res, err) == Event("get", key, "", res, err, 0)

SetEvent(key, val, fails) ==
    Event("set", key, val, IF fails THEN "raise" ELSE "ok",
          IF fails THEN "BackendError" ELSE "", seconds)

CachesEvent(ok) ==
    Event("caches", "", "", IF ok THEN "ok" ELSE "raise",
          IF ok THEN "" ELSE "InvalidCacheBackendError", 0)

-----------------------------------------------------------------------------
(* The wrapper, one operator per stretch of code between two interactions *)

\* EnterWrapper without the test of line 30
EnterWrapperIgnoresFlag(a, use_cache) ==
    [IdleFrame EXCEPT !.args = a.args,
                      !.kwargs = a.kwargs,
                      !.enabled = use_cache,
                      !.pc = "L34"]

\* lines 29-31: the wrapper is entered and reads settings.USE_CACHE
EnterWrapper(a, use_cache) ==
    [IdleFrame EXCEPT !.args = a.args,
                      !.kwargs = a.kwargs,
                      !.enabled = use_cache,
                      !.pc = IF use_cache THEN "L34" ELSE "L31"]

\* lines 31 and 37: return func(*args, **kwargs)
ReturnFunc(fr, o) ==
    [fr EXCEPT !.pc = "done",
               !.log = Append(@, FuncEvent(o)),
               !.outcome = IF o.res = "raise" THEN Raised(o.err)
                           ELSE Returned(o.res)]

\* ResolveFailed without the try: the lookup's exception is the call's outcome
ResolveFailedPropagates(fr) ==
    [fr EXCEPT !.pc = "done",
               !.log = Append(@, CachesEvent(FALSE)),
               !.outcome = Raised("InvalidCacheBackendError")]

\* lines 35-37: caches[cache_setup] raised
ResolveFailed(fr) ==
    [fr EXCEPT !.pc = "L37", !.log = Append(@, CachesEvent(FALSE))]

\* line 39: caches[cache_setup] returned the backend; the key is derived
DeriveKey(fr, seed) ==
    IF KeyRaises(fr.kwargs, fr.args, cache_kwarg_keys, cache_key)
    THEN [fr EXCEPT !.pc = "done",
                    !.log = Append(@, CachesEvent(TRUE)),
                    !.outcome = Raised("ValueError")]
    ELSE [fr EXCEPT !.pc = "L42",
                    !.log = Append(@, CachesEvent(TRUE)),
                    !.final_cache_key =
                        generate_cache_key_for_method(
                            seed, fr.kwargs, fr.args, cache_kwarg_keys, cache_key)]

\* GetRaised without the try: the backend's exception is the call's outcome
GetRaisedPropagates(fr) ==
    [fr EXCEPT !.pc = "done",
               !.log = Append(@, GetEvent(fr.final_cache_key, "raise", "BackendError")),
               !.outcome = Raised("BackendError")]

\* GetRaised with a retry: after a failed get the call goes back to line 42
GetRaisedRetries(fr) ==
    [fr EXCEPT !.pc = "L42",
               !.log = Append(@, GetEvent(fr.final_cache_key, "raise", "BackendError"))]

\* lines 48-49: cache_conn.get raised; the exception is logged
GetRaised(fr) ==
    [fr EXCEPT !.pc = "L52",
               !.log = Append(@, GetEvent(fr.final_cache_key, "raise", "BackendError"))]

\* GetReturned with the hit thrown away: every value is treated as a miss
GetReturnedAsMiss(fr, v) ==
    [fr EXCEPT !.pc = "L52",
               !.result = v,
               !.log = Append(@, GetEvent(fr.final_cache_key, v, ""))]

\* GetReturned without the test of line 44: every value held is served
GetReturnedUnfiltered(fr, v) ==
    IF v = None
    THEN GetReturnedAsMiss(fr, v)
    ELSE [fr EXCEPT !.pc = "done",
                    !.result = v,
                    !.log = @ \o <<GetEvent(fr.final_cache_key, v, "")>>,
                    !.outcome = Returned(v)]

\* GetReturned without the test of line 43: None goes to cache_filter too
GetReturnedFiltersNone(fr, v) ==
    LET f == FilterEvent(v)
    IN  [fr EXCEPT !.result = v,
                   !.log = @ \o <<GetEvent(fr.final_cache_key, v, ""), f>>,
                   !.pc = CASE f.res = "True" -> "done"
                            [] f.res = "False" -> "L46"
                            [] OTHER -> "L52",
                   !.outcome = IF f.res = "True" THEN Returned(v)
                               ELSE NoOutcome]

\* GetReturned with line 44 outside the try: an exception of cache_filter is
\* the call's outcome
GetReturnedFilterPropagates(fr, v) ==
    IF v = None
    THEN GetReturnedAsMiss(fr, v)
    ELSE LET f == FilterEvent(v)
         IN  [fr EXCEPT !.result = v,
                        !.log = @ \o <<GetEvent(fr.final_cache_key, v, ""), f>>,
                        !.pc = IF f.res = "False" THEN "L46" ELSE "done",
                        !.outcome = CASE f.res = "True" -> Returned(v)
                                      [] f.res = "False" -> NoOutcome
                                      [] OTHER -> Raised(f.err)]

\* lines 42-49: cache_conn.get returned v
GetReturned(fr, v) ==
    IF v = None
    THEN [fr EXCEPT !.pc = "L52",
                    !.result = v,
                    !.log = Append(@, GetEvent(fr.final_cache_key, v, ""))]
    ELSE LET f == FilterEvent(v)
         IN  [fr EXCEPT !.result = v,
                        !.log = @ \o <<GetEvent(fr.final_cache_key, v, ""), f>>,
                        !.pc = CASE f.res = "True" -> "done"
                                 [] f.res = "False" -> "L46"
                                 [] OTHER -> "L52",
                        !.outcome = IF f.res = "True" THEN Returned(v)
                                    ELSE NoOutcome]

\* line 46, inside the try of line 41: return func(*args, **kwargs); an
\* exception func raises here is caught at line 48 and the call goes on
ReturnFuncInTry(fr, o) ==
    IF o.res = "raise"
    THEN [fr EXCEPT !.pc = "L52", !.log = Append(@, FuncEvent(o))]
    ELSE ReturnFunc(fr, o)

\* ComputeResult without the test of line 53: every result goes to the set
ComputeResultUnfiltered(fr, o) ==
    IF o.res = "raise"
    THEN ReturnFunc(fr, o)
    ELSE [fr EXCEPT !.result = o.res,
                    !.log = @ \o <<FuncEvent(o), FilterEvent(o.res)>>,
                    !.pc = "L55"]

\* lines 52-53: result = func(*args, **kwargs), then cache_filter(result)
ComputeResult(fr, o) ==
    IF o.res = "raise"
    THEN ReturnFunc(fr, o)
    ELSE LET f == FilterEvent(o.res)
         IN  [fr EXCEPT !.result = o.res,
                        !.log = @ \o <<FuncEvent(o), f>>,
                        !.pc = IF f.res = "True" THEN "L55" ELSE "done",
                        !.outcome = CASE f.res = "True" -> NoOutcome
                                      [] f.res = "False" -> Returned(o.res)
                                      [] OTHER -> Raised(f.err)]

\* StoreResult without the try: an exception of cache_conn.set is the outcome
StoreResultPropagates(fr, fails) ==
    [fr EXCEPT !.pc = "done",
               !.log = Append(@, SetEvent(fr.final_cache_key, fr.result, fails)),
               !.outcome = IF fails THEN Raised("BackendError")
                           ELSE Returned(fr.result)]

\* StoreResult returning what the backend held under the key before the set
StoreResultReadsBack(fr, fails) ==
    [fr EXCEPT !.pc = "done",
               !.log = Append(@, SetEvent(fr.final_cache_key, fr.result, fails)),
               !.outcome = Returned(BackendGet(fr.final_cache_key))]

\* lines 54-59: cache_conn.set returned or raised; return result
StoreResult(fr, fails) ==
    [fr EXCEPT !.pc = "done",
               !.log = Append(@, SetEvent(fr.final_cache_key, fr.result, fails)),
               !.outcome = Returned(fr.result)]

-----------------------------------------------------------------------------
(* The state machine *)

Init ==
    /\ cache_key \in CacheKeys
    /\ cache_kwarg_keys \in CacheKwargKeys
    /\ seconds \in Timeouts
    /\ cache_filter \in Filters
    /\ USE_CACHE \in BOOLEAN
    /\ hashSeed = ProcessSeed
    /\ cache = [k \in {} |-> [value |-> None, timeout |-> 0]]
    /\ frame = [c \in Callers |-> IdleFrame]
    /\ calls = 0

Call(c) ==
    /\ frame[c].pc = "idle"
    /\ calls < MaxCalls
    /\ \E a \in CallArgs :
          frame' = [frame EXCEPT ![c] = EnterWrapper(a, USE_CACHE)]
    /\ calls' = calls + 1
    /\ UNCHANGED <<config, USE_CACHE, cache>>

\* line 31: caching is disabled
FuncDisabled(c) ==
    /\ frame[c].pc = "L31"
    /\ \E o \in FuncOutcomes :
          frame' = [frame EXCEPT ![c] = ReturnFunc(@, o)]
    /\ UNCHANGED <<config, USE_CACHE, cache, calls>>

\* lines 33-39: caches[cache_setup] raises or returns the backend
Resolve(c) ==
    /\ frame[c].pc = "L34"
    /\ \E ok \in BOOLEAN :
          frame' = [frame EXCEPT ![c] = IF ok THEN DeriveKey(@, hashSeed[c])
                                        ELSE ResolveFailed(@)]
    /\ UNCHANGED <<config, USE_CACHE, cache, calls>>

\* line 37: the backend could not be resolved
FuncNoBackend(c) ==
    /\ frame[c].pc = "L37"
    /\ \E o \in FuncOutcomes :
          frame' = [frame EXCEPT ![c] = ReturnFunc(@, o)]
    /\ UNCHANGED <<config, USE_CACHE, cache, calls>>

\* lines 41-49: cache_conn.get(final_cache_key) raises or returns
Get(c) ==
    /\ frame[c].pc = "L42"
    /\ \E fails \in BOOLEAN :
          frame' = [frame EXCEPT ![c] =
                       IF fails THEN GetRaised(@)
                       ELSE GetReturned(@, BackendGet(frame[c].final_cache_key))]
    /\ UNCHANGED <<config, USE_CACHE, cache, calls>>

\* line 46: the cached value failed cache_filter
FuncRejected(c) ==
    /\ frame[c].pc = "L46"
    /\ \E o \in FuncOutcomes :
          frame' = [frame EXCEPT ![c] = ReturnFuncInTry(@, o)]
    /\ UNCHANGED <<config, USE_CACHE, cache, calls>>

\* lines 52-53
Func(c) ==
    /\ frame[c].pc = "L52"
    /\ \E o \in FuncOutcomes :
          frame' = [frame EXCEPT ![c] = ComputeResult(@, o)]
    /\ UNCHANGED <<config, USE_CACHE, cache, calls>>

\* lines 54-59: cache_conn.set(final_cache_key, result, seconds) raises or stores
Set(c) ==
    /\ frame[c].pc = "L55"
    /\ \E fails \in BOOLEAN :
          /\ cache' = IF fails THEN cache
                      ELSE BackendSet(frame[c].final_cache_key, frame[c].result, seconds)
          /\ frame' = [frame EXCEPT ![c] = StoreResult(@, fails)]
    /\ UNCHANGED <<config, USE_CACHE, calls>>

\* the wrapper's frame is discarded once the caller has the outcome
Return(c) ==
    /\ frame[c].pc = "done"
    /\ frame' = [frame EXCEPT ![c] = IdleFrame]
    /\ UNCHANGED <<config, USE_CACHE, cache, calls>>

\* an operator sets settings.USE_CACHE at run time
SetUseCache ==
    /\ USE_CACHE' = ~USE_CACHE
    /\ UNCHANGED <<config, cache, frame, calls>>

\* the backend drops an entry (its timeout passed, or it was evicted)
Expire ==
    /\ \E k \in DOMAIN cache :
          cache' = [j \in DOMAIN cache \ {k} |-> cache[j]]
    /\ UNCHANGED <<config, USE_CACHE, frame, calls>>

\* the keys some caller is about to read
KeysAwaited == {frame[c].final_cache_key : c \in {d \in Callers : frame[d].pc = "L42"}}

\* another client of the shared backend stores a value under such a key
OtherClientSet ==
    /\ \E k \in KeysAwaited, v \in OtherValues, t \in OtherTimeouts :
          cache' = BackendSet(k, v, t)
    /\ UNCHANGED <<config, USE_CACHE, frame, calls>>

\* no call is in flight: entries are dropped between calls (a call reads the
\* backend once, at line 42, so a drop during the call is a drop before it)
AllIdle == \A c \in Callers : frame[c].pc = "idle"

\* the callers call one after the other
Quiet(c) == \A d \in Callers \ {c} : frame[d].pc = "idle"

Next ==
    \/ \E c \in Callers : Quiet(c) /\ Call(c)
    \/ \E c \in Callers : FuncDisabled(c)
    \/ \E c \in Callers : Resolve(c)
    \/ \E c \in Callers : FuncNoBackend(c)
    \/ \E c \in Callers : Get(c)
    \/ \E c \in Callers : FuncRejected(c)
    \/ \E c \in Callers : Func(c)
    \/ \E c \in Callers : Set(c)
    \/ \E c \in Callers : Return(c)
    \/ SetUseCache
    \/ AllIdle /\ Expire
    \/ OtherClientSet

Spec == Init /\ [][Next]_vars

-----------------------------------------------------------------------------
(* What a frame's log says *)

OpsOf(fr, op) == SelectSeq(fr.log, LAMBDA e : e.op = op)

CountOf(fr, op) == Len(OpsOf(fr, op))

Done(c) == frame[c].pc = "done"

\* the values func returned, and the errors it raised, in this call
FuncReturns(fr) == SelectSeq(OpsOf(fr, "func"), LAMBDA e : e.res # "raise")

FuncRaises(fr) == SelectSeq(OpsOf(fr, "func"), LAMBDA e : e.res = "raise")

GetDidRaise(fr) == \E i \in DOMAIN fr.log : fr.log[i].op = "get" /\ fr.log[i].res = "raise"

GetGaveNone(fr) == \E i \in DOMAIN fr.log : fr.log[i].op = "get" /\ fr.log[i].res = None

Entry(v, t) == [value |-> v, timeout |-> t]

Passes(v) == ApplyFilter(cache_filter, v) = "True"

-----------------------------------------------------------------------------
(* C1 *)

\* Miss-then-store, for the stored values in `served`:
\*  - a call whose get found nothing and whose func returns a value that
\*    passes cache_filter has invoked func exactly once and goes on to store;
\*  - its store, when the backend accepts it, leaves the entry
\*    (result, seconds) under the derived key, and the call returns result;
\*  - a call whose get returns a held value of `served` that passes
\*    cache_filter returns that value and invokes func zero times.
MissThenStore(served) ==
    \A c \in Callers :
       LET fr == frame[c]
           to == frame'[c]
           key == fr.final_cache_key
       IN  /\ ( /\ fr.pc = "L52" /\ to.pc # "L52"
                /\ GetGaveNone(fr)
                /\ FuncReturns(to) # <<>>
                /\ Passes(FuncReturns(to)[1].res) )
              => /\ to.pc = "L55"
                 /\ to.result = FuncReturns(to)[1].res
                 /\ CountOf(to, "func") = 1
           /\ ( fr.pc = "L55" /\ to.pc = "done" /\ GetGaveNone(fr) )
              => /\ CountOf(to, "func") = 1
                 /\ to.outcome = Returned(fr.result)
                 /\ OpsOf(to, "set")[1].res = "ok"
                       => /\ key \in DOMAIN cache'
                          /\ cache'[key] = Entry(fr.result, seconds)
           /\ ( /\ fr.pc = "L42" /\ to.pc # "L42"
                /\ ~GetDidRaise(to)
                /\ key \in DOMAIN cache
                /\ cache[key].value \in served
                /\ Passes(cache[key].value) )
              => /\ to.pc = "done"
                 /\ to.outcome = Returned(cache[key].value)
                 /\ CountOf(to, "func") = 0

\* C1 as stated: for every value func can return that passes cache_filter
C1_MissThenStoreEveryValue == [][MissThenStore(FuncValues \cup OtherValues)]_vars

\* C1, amended: for every value other than None that passes cache_filter, the
\* first call with a fresh key invokes func once and stores the result, and a
\* later call with the same key, while the backend holds the entry, invokes
\* func zero times and returns the stored value
C1_MissThenStore == [][MissThenStore((FuncValues \cup OtherValues) \ {None})]_vars

\* a call served, without func, the entry an earlier call of the wrapper stored
C1_Witness ==
    \E c \in Callers :
       /\ Done(c)
       /\ CountOf(frame[c], "func") = 0
       /\ frame[c].final_cache_key \in DOMAIN cache
       /\ cache[frame[c].final_cache_key].timeout = seconds
       /\ frame[c].outcome = Returned(cache[frame[c].final_cache_key].value)

-----------------------------------------------------------------------------
(* C2 *)

\* Computation errors: in a finished call in which func raised, that error
\* is the call's outcome, func was invoked once and no set was performed
C2_ComputationErrors ==
    \A c \in Callers :
       (Done(c) /\ FuncRaises(frame[c]) # <<>>)
          => /\ frame[c].outcome = Raised(FuncRaises(frame[c])[1].err)
             /\ CountOf(frame[c], "func") = 1
             /\ CountOf(frame[c], "set") = 0

-----------------------------------------------------------------------------
(* C3 *)

\* the get of this call returned a value that cache_filter rejected
RejectedHit(fr) ==
    \E i \in DOMAIN fr.log :
       /\ fr.log[i].op = "get"
       /\ i + 1 \in DOMAIN fr.log
       /\ fr.log[i + 1].op = "filter"
       /\ fr.log[i + 1].res = "False"

HasSet(fr, key, val, ttl) ==
    \E i \in DOMAIN fr.log :
       /\ fr.log[i].op = "set"
       /\ fr.log[i].key = key
       /\ fr.log[i].val = val
       /\ fr.log[i].ttl = ttl

\* Rejected hit behaves as a miss: a finished call whose get returned a
\* rejected value, and whose func returned, computed func once, applied
\* cache_filter a second time, to the fresh result, stored the fresh result
\* under the same key with the configured timeout if it passed, and returned it
C3_RejectedHitAsMiss ==
    \A c \in Callers :
       LET fr == frame[c]
       IN  (Done(c) /\ RejectedHit(fr) /\ FuncReturns(fr) # <<>>)
              => LET v == FuncReturns(fr)[1].res
                 IN  /\ CountOf(fr, "func") = 1
                     /\ CountOf(fr, "filter") = 2
                     /\ OpsOf(fr, "filter")[2].val = v
                     /\ Passes(v) => HasSet(fr, fr.final_cache_key, v, seconds)
                     /\ fr.outcome = Returned(v)

-----------------------------------------------------------------------------
(* C4 *)

\* the outcome of the one call of func in the log: its value or its error
FuncOutcomeOf(fr) ==
    LET e == OpsOf(fr, "func")[1]
    IN  IF e.res = "raise" THEN Raised(e.err) ELSE Returned(e.res)

\* Backend read failure is transparent: a finished call whose get raised
\* invoked func exactly once and its outcome is what func returned (or raised)
C4_ReadFailureTransparent ==
    \A c \in Callers :
       (Done(c) /\ GetDidRaise(frame[c]))
          => /\ CountOf(frame[c], "func") = 1
             /\ frame[c].outcome = FuncOutcomeOf(frame[c])

C4_Witness ==
    \E c \in Callers :
       /\ Done(c)
       /\ GetDidRaise(frame[c])
       /\ frame[c].outcome = Returned("5")

-----------------------------------------------------------------------------
(* C5 *)

\* Backend write failure is swallowed: a finished call that performed a set
\* returns the value func computed, whether the set raised or not
C5_WriteFailureSwallowed ==
    \A c \in Callers :
       LET fr == frame[c]
       IN  (Done(c) /\ CountOf(fr, "set") > 0)
              => /\ CountOf(fr, "set") = 1
                 /\ FuncReturns(fr) # <<>>
                 /\ OpsOf(fr, "set")[1].val = FuncReturns(fr)[Len(FuncReturns(fr))].res
                 /\ fr.outcome = Returned(OpsOf(fr, "set")[1].val)

C5_Witness ==
    \E c \in Callers :
       /\ Done(c)
       /\ CountOf(frame[c], "set") = 1
       /\ OpsOf(frame[c], "set")[1].res = "raise"
       /\ frame[c].outcome = Returned("5")

-----------------------------------------------------------------------------
(* C6 *)

\* Admission on store, over every step a call takes:
\*  - a step of a call that changes the backend is the set of line 55, with a
\*    value that passes cache_filter, under the call's key, with `seconds`;
\*  - every set in the call's log carried a value that passes cache_filter;
\*  - when func returns a value that fails cache_filter the call ends there,
\*    returning it, with no set and the backend unchanged;
\*  - a finished call whose get found nothing has invoked func
C6_AdmissionOnStore ==
    [][\A c \in Callers :
          LET fr == frame[c]
              to == frame'[c]
          IN  /\ (to # fr /\ cache' # cache)
                 => /\ fr.pc = "L55"
                    /\ Passes(fr.result)
                    /\ cache' = BackendSet(fr.final_cache_key, fr.result, seconds)
              /\ \A i \in DOMAIN to.log :
                    to.log[i].op = "set" => Passes(to.log[i].val)
              /\ ( /\ fr.pc = "L52" /\ to.pc # "L52"
                   /\ to.log[Len(to.log)].op = "filter"
                   /\ ~Passes(to.log[Len(to.log)].val) )
                 => /\ to.pc = "done"
                    /\ to.outcome = Returned(to.log[Len(to.log)].val)
                    /\ CountOf(to, "set") = 0
                    /\ cache' = cache
              /\ (to.pc = "done" /\ GetGaveNone(to)) => CountOf(to, "func") = 1
      ]_vars

\* a repeat call that missed, computed a rejected value and stored nothing
C6_Witness ==
    \E c \in Callers :
       /\ Done(c)
       /\ calls = MaxCalls
       /\ GetGaveNone(frame[c])
       /\ frame[c].outcome = Returned("-8")
       /\ ~Passes("-8")
       /\ CountOf(frame[c], "set") = 0
       /\ frame[c].final_cache_key \notin DOMAIN cache

-----------------------------------------------------------------------------
(* C7 *)

\* Admission on serve: a call that ends returning a value without having
\* invoked func ends at its get, and the value is the one the backend holds
\* under the derived key, and it passes cache_filter; a get that returns a
\* value failing cache_filter does not end the call
C7_AdmissionOnServe ==
    [][\A c \in Callers :
          LET fr == frame[c]
              to == frame'[c]
              key == fr.final_cache_key
          IN  /\ ( /\ fr.pc # "done" /\ to.pc = "done"
                   /\ to.outcome.kind = "return"
                   /\ CountOf(to, "func") = 0 )
                 => /\ fr.pc = "L42"
                    /\ key \in DOMAIN cache
                    /\ to.outcome.val = cache[key].value
                    /\ Passes(cache[key].value)
              /\ ( /\ fr.pc = "L42" /\ to.pc # "L42"
                   /\ key \in DOMAIN cache
                   /\ ~Passes(cache[key].value) )
                 => to.pc # "done"
      ]_vars

\* a hit served under a filter that rejects some values
C7_Witness ==
    \E c \in Callers :
       /\ Done(c)
       /\ cache_filter = "nonneg"
       /\ CountOf(frame[c], "func") = 0
       /\ CountOf(frame[c], "get") = 1
       /\ frame[c].outcome = Returned("5")

-----------------------------------------------------------------------------
(* C8 *)

\* Disabled-flag bypass: the flag a call works with is the value of
\* settings.USE_CACHE when the call starts; a call that started with the flag
\* false never looks up the backend, derives no key, performs no get and no
\* set, leaves the backend as it is, and ends with one call of func, whose
\* outcome is the call's
C8_DisabledBypass ==
    [][\A c \in Callers :
          LET fr == frame[c]
              to == frame'[c]
          IN  /\ (fr.pc = "idle" /\ to.pc # "idle") => to.enabled = USE_CACHE
              /\ (to.pc # "idle" /\ ~to.enabled)
                 => /\ CountOf(to, "caches") = 0
                    /\ CountOf(to, "get") = 0
                    /\ CountOf(to, "set") = 0
                    /\ to.final_cache_key = ""
                    /\ to # fr => cache' = cache
              /\ (to.pc = "done" /\ ~to.enabled)
                 => /\ CountOf(to, "func") = 1
                    /\ to.outcome = FuncOutcomeOf(to)
      ]_vars

\* a call that started with the flag false, finished after the flag was set
\* again, while the backend holds an entry of an earlier call
C8_Witness ==
    \E c \in Callers :
       /\ Done(c)
       /\ ~frame[c].enabled
       /\ USE_CACHE
       /\ DOMAIN cache # {}
       /\ frame[c].outcome = Returned("5")

-----------------------------------------------------------------------------
(* C9 *)

\* the key strategy in effect, by the tests of lines 73 and 76
Strategy ==
    IF Truthy(cache_key) THEN "Fixed"
    ELSE IF Truthy(cache_kwarg_keys) THEN "SelectedKeywords"
    ELSE "AllArguments"

BackendResolved(fr) == CountOf(fr, "caches") = 1 /\ OpsOf(fr, "caches")[1].res = "ok"

\* C9 as stated: every finished call with positional arguments under the
\* SelectedKeywords strategy raised ValueError and performed no get and no set
C9_KeywordModeEveryCall ==
    \A c \in Callers :
       (Done(c) /\ Strategy = "SelectedKeywords" /\ frame[c].args # <<>>)
          => /\ frame[c].outcome = Raised("ValueError")
             /\ CountOf(frame[c], "get") = 0
             /\ CountOf(frame[c], "set") = 0

\* C9, amended: a call with positional arguments under the SelectedKeywords
\* strategy performs no get and no set; if it started with caching enabled and
\* the backend was resolved, it raises ValueError and never invokes func
C9_KeywordModePrecondition ==
    \A c \in Callers :
       LET fr == frame[c]
       IN  (fr.pc # "idle" /\ Strategy = "SelectedKeywords" /\ fr.args # <<>>)
              => /\ CountOf(fr, "get") = 0
                 /\ CountOf(fr, "set") = 0
                 /\ (fr.enabled /\ BackendResolved(fr))
                    => /\ Done(c)
                       /\ fr.outcome = Raised("ValueError")
                       /\ CountOf(fr, "func") = 0

C9_Witness ==
    \E c \in Callers :
       /\ Done(c)
       /\ Strategy = "SelectedKeywords"
       /\ frame[c].args # <<>>
       /\ frame[c].outcome = Raised("ValueError")

-----------------------------------------------------------------------------
(* C10 *)

\* Fixed-key precedence, for the stored values in `served`: with a fixed key
\* in effect, a call that resolved the backend goes on to the get with the
\* key module::name::cache_key, whatever its arguments and cache_kwarg_keys;
\* and its get, when it returns a value of `served` that a call of the
\* wrapper stored, ends the call with that value and without func
FixedKeyPrecedence(served) ==
    \A c \in Callers :
       LET fr == frame[c]
           to == frame'[c]
           key == fr.final_cache_key
       IN  Strategy = "Fixed"
           => /\ (fr.pc = "L34" /\ to.pc \notin {"L34", "L37"})
                 => /\ to.pc = "L42"
                    /\ to.final_cache_key =
                          FuncModule \o "::" \o FuncName \o "::" \o cache_key[1]
              /\ ( /\ fr.pc = "L42" /\ to.pc # "L42"
                   /\ ~GetDidRaise(to)
                   /\ key \in DOMAIN cache
                   /\ cache[key].timeout = seconds
                   /\ cache[key].value \in served )
                 => /\ to.pc = "done"
                    /\ to.outcome = Returned(cache[key].value)
                    /\ CountOf(to, "func") = 0

\* C10 as stated: whatever value a call has stored
C10_FixedKeyEveryValue == [][FixedKeyPrecedence(FuncValues)]_vars

\* C10, amended: for every non-empty fixed key the derived key is
\* module::name::key whatever the arguments, no ValueError is raised for
\* positional arguments when cache_kwarg_keys is given too, and once a call
\* has stored a value other than None, a call with any arguments is served
\* that value without invoking func
C10_FixedKeyPrecedence == [][FixedKeyPrecedence(FuncValues \ {None})]_vars

\* a call with positional arguments, under a fixed key given together with
\* cache_kwarg_keys, served the entry a call of the wrapper stored
C10_Witness ==
    \E c \in Callers :
       /\ Done(c)
       /\ cache_key = Some("k")
       /\ Truthy(cache_kwarg_keys)
       /\ frame[c].args # <<>>
       /\ frame[c].final_cache_key = "app::add::k"
       /\ "app::add::k" \in DOMAIN cache
       /\ cache["app::add::k"].timeout = seconds
       /\ CountOf(frame[c], "func") = 0
       /\ frame[c].outcome = Returned(cache["app::add::k"].value)

-----------------------------------------------------------------------------
(* C11 *)

\* the key a call with the arguments of frame fr derives in the process of
\* caller d
KeyIn(d, fr) ==
    generate_cache_key_for_method(hashSeed[d], fr.kwargs, fr.args,
                                  cache_kwarg_keys, cache_key)

\* Key determinism: the key a call derives at line 39 is the key the same call
\* derives in every process, whatever the hash seed the process started with
C11_KeyDeterminism ==
    [][\A c \in Callers :
          LET fr == frame[c]
              to == frame'[c]
          IN  (fr.pc = "L34" /\ to.pc = "L42")
                 => \A d \in Callers : to.final_cache_key = KeyIn(d, to)
      ]_vars

-----------------------------------------------------------------------------
(* C12 *)

\* two callers, each in a process of its own, call a function wrapped with the
\* fixed key "k": their calls overlap and every call derives the same key
InitConc == Init /\ cache_key = Some("k")

NextConc ==
    \/ \E c \in Callers : Call(c)
    \/ \E c \in Callers : FuncDisabled(c)
    \/ \E c \in Callers : Resolve(c)
    \/ \E c \in Callers : FuncNoBackend(c)
    \/ \E c \in Callers : Get(c)
    \/ \E c \in Callers : FuncRejected(c)
    \/ \E c \in Callers : Func(c)
    \/ \E c \in Callers : Set(c)
    \/ \E c \in Callers : Return(c)
    \/ SetUseCache
    \/ Expire
    \/ OtherClientSet

SpecConc == InitConc /\ [][NextConc]_vars

\* the value the last call of func in this frame returned
LastFuncReturn(fr) == FuncReturns(fr)[Len(FuncReturns(fr))].res

\* No single-flight, over every step of overlapping calls:
\*  - a call that missed and whose func returns an admitted value goes on to
\*    its set, whatever another call has stored under the key meanwhile;
\*  - a set the backend accepts leaves the setter's own result under the key,
\*    whatever was there (the last write wins);
\*  - the call returns the value its own func returned, not the entry
C12_NoSingleFlight ==
    [][\A c \in Callers :
          LET fr == frame[c]
              to == frame'[c]
              key == fr.final_cache_key
          IN  /\ ( /\ fr.pc = "L52" /\ to.pc # "L52"
                   /\ FuncReturns(to) # <<>>
                   /\ Passes(LastFuncReturn(to)) )
                 => /\ to.pc = "L55"
                    /\ to.result = LastFuncReturn(to)
              /\ (fr.pc = "L55" /\ to.pc = "done")
                 => /\ to.outcome = Returned(LastFuncReturn(fr))
                    /\ OpsOf(to, "set")[1].res = "ok"
                          => /\ key \in DOMAIN cache'
                             /\ cache'[key] = Entry(LastFuncReturn(fr), seconds)
      ]_vars

\* both callers missed, both invoked func and both stored under the same key;
\* the entry is the one of caller 2, and caller 1 still returns its own value
C12_Witness ==
    /\ \A c \in Callers :
          /\ Done(c)
          /\ GetGaveNone(frame[c])
          /\ CountOf(frame[c], "func") = 1
          /\ CountOf(frame[c], "set") = 1
          /\ OpsOf(frame[c], "set")[1].res = "ok"
    /\ frame[1].final_cache_key = frame[2].final_cache_key
    /\ frame[1].outcome = Returned("5")
    /\ frame[2].outcome = Returned("-8")
    /\ cache[frame[1].final_cache_key] = Entry("-8", seconds)

-----------------------------------------------------------------------------
(* C13 *)

\* caches[cache_setup] raised in this call
ResolveDidFail(fr) ==
    \E i \in DOMAIN fr.log : fr.log[i].op = "caches" /\ fr.log[i].res = "raise"

\* Backend resolution failure is treated as caching disabled: a call whose
\* backend lookup raised derives no key, performs no get and no set, leaves
\* the backend as it is, and ends with exactly one call of func, whose outcome
\* is the call's (never the ValueError of the keyword mode)
C13_ResolutionFailure ==
    [][\A c \in Callers :
          LET fr == frame[c]
              to == frame'[c]
          IN  /\ ResolveDidFail(to)
                 => /\ to.final_cache_key = ""
                    /\ CountOf(to, "get") = 0
                    /\ CountOf(to, "set") = 0
                    /\ to.pc \in {"L37", "done"}
                    /\ to # fr => cache' = cache
              /\ (to.pc = "done" /\ ResolveDidFail(to))
                 => /\ CountOf(to, "func") = 1
                    /\ to.outcome = FuncOutcomeOf(to)
      ]_vars

\* a call with positional arguments in the keyword mode whose backend lookup
\* raised: func was invoked and its value returned
C13_Witness ==
    \E c \in Callers :
       /\ Done(c)
       /\ Strategy = "SelectedKeywords"
       /\ frame[c].args # <<>>
       /\ ResolveDidFail(frame[c])
       /\ frame[c].outcome = Returned("-8")

-----------------------------------------------------------------------------
(* C14 *)

HasKey(kv, k) == \E i \in DOMAIN kv : kv[i][1] = k

\* what a call passes for the selected names: <<v>> for a keyword passed with
\* the value v, <<>> for a keyword the call omits
Selection(kv, names) ==
    [i \in DOMAIN names |->
        IF HasKey(kv, names[i]) THEN Some(DictGet(kv, names[i])) ELSE NoneOpt]

\* Absent-keyword sentinel: in the keyword mode, the key a call derives at
\* line 39 differs from the key of every call that passes something else for
\* the selected names, a keyword omitted being different from a keyword
\* passed with any value, None included
C14_AbsentKeywordSentinel ==
    [][\A c \in Callers :
          LET fr == frame[c]
              to == frame'[c]
              names == cache_kwarg_keys[1]
          IN  (fr.pc = "L34" /\ to.pc = "L42" /\ Strategy = "SelectedKeywords")
                 => \A a \in CallArgs :
                       ( /\ a.args = <<>>
                         /\ Selection(a.kwargs, names) # Selection(to.kwargs, names) )
                       => generate_cache_key_for_method(
                              hashSeed[c], a.kwargs, a.args, cache_kwarg_keys, cache_key)
                          # to.final_cache_key
      ]_vars

-----------------------------------------------------------------------------
(* C15 *)

\* the name-to-value mapping of a kwargs dict, its insertion order forgotten
Mapping(kv) == {kv[i] : i \in DOMAIN kv}

\* Keyword order is irrelevant: under the AllArguments strategy, the key a
\* call derives at line 39 is the key of every call with the same positional
\* arguments and the same keyword mapping, in whatever order the keywords
\* were passed
C15_KeywordOrderIrrelevant ==
    [][\A c \in Callers :
          LET fr == frame[c]
              to == frame'[c]
          IN  (fr.pc = "L34" /\ to.pc = "L42" /\ Strategy = "AllArguments")
                 => \A a \in CallArgs :
                       (a.args = to.args /\ Mapping(a.kwargs) = Mapping(to.kwargs))
                       => generate_cache_key_for_method(
                              hashSeed[c], a.kwargs, a.args, cache_kwarg_keys, cache_key)
                          = to.final_cache_key
      ]_vars

-----------------------------------------------------------------------------
(* C16 *)

\* No retries and fixed ordering: at every point of every call the log holds
\* at most one get and at most one set, failed ones included; the get comes
\* before every call of func and before the set, and there is no set without
\* a get before it
C16_NoRetriesFixedOrder ==
    \A c \in Callers :
       LET log == frame[c].log
       IN  /\ CountOf(frame[c], "get") <= 1
           /\ CountOf(frame[c], "set") <= 1
           /\ \A i, j \in DOMAIN log :
                 (log[i].op = "get" /\ log[j].op \in {"func", "set"}) => i < j
           /\ \A j \in DOMAIN log :
                 log[j].op = "set" => \E i \in 1..(j - 1) : log[i].op = "get"

\* a finished call whose get raised and whose set raised: one get, one call
\* of func, one set, in that order
C16_Witness ==
    \E c \in Callers :
       /\ Done(c)
       /\ GetDidRaise(frame[c])
       /\ CountOf(frame[c], "get") = 1
       /\ CountOf(frame[c], "func") = 1
       /\ CountOf(frame[c], "set") = 1
       /\ OpsOf(frame[c], "set")[1].res = "raise"
       /\ frame[c].log[Len(frame[c].log)].op = "set"

-----------------------------------------------------------------------------
(* C17 *)

\* Single-key frame, over every step a call takes:
\*  - the entries under every key other than the call's derived key are the
\*    same before and after the step (none added, dropped or changed);
\*  - every get and every set in the call's log carries the call's derived key;
\*  - the derived key does not change between the get and the end of the call
C17_SingleKeyFrame ==
    [][\A c \in Callers :
          LET fr == frame[c]
              to == frame'[c]
          IN  /\ to # fr
                 => \A k \in (DOMAIN cache \cup DOMAIN cache') \ {fr.final_cache_key} :
                       /\ k \in DOMAIN cache
                       /\ k \in DOMAIN cache'
                       /\ cache'[k] = cache[k]
              /\ \A i \in DOMAIN to.log :
                    to.log[i].op \in {"get", "set"}
                       => to.log[i].key = to.final_cache_key
              /\ (fr.pc \in {"L42", "L46", "L52", "L55"})
                 => to.final_cache_key = fr.final_cache_key
      ]_vars

\* a call that read and stored under its key while the backend held the
\* entry an earlier call stored under another key
C17_Witness ==
    \E c \in Callers :
       /\ Done(c)
       /\ CountOf(frame[c], "get") = 1
       /\ CountOf(frame[c], "set") = 1
       /\ OpsOf(frame[c], "set")[1].res = "ok"
       /\ frame[c].final_cache_key \in DOMAIN cache
       /\ \E k \in DOMAIN cache :
             /\ k # frame[c].final_cache_key
             /\ cache[k].timeout = seconds

-----------------------------------------------------------------------------
(* C18 *)

\* Null is absent: a get that does not raise while the backend holds nothing
\* under the derived key, or holds None, returns None; the call then goes to
\* line 52 without consulting cache_filter, and its next interaction is the
\* call of func
C18_NullIsAbsent ==
    [][\A c \in Callers :
          LET fr == frame[c]
              to == frame'[c]
              key == fr.final_cache_key
          IN  /\ ( /\ fr.pc = "L42" /\ to.pc # "L42"
                   /\ ~GetDidRaise(to)
                   /\ (key \notin DOMAIN cache \/ cache[key].value = None) )
                 => /\ to.pc = "L52"
                    /\ to.log = Append(fr.log, GetEvent(key, None, ""))
                    /\ to.outcome = NoOutcome
              /\ (fr.pc = "L52" /\ to.pc # "L52" /\ GetGaveNone(fr))
                 => /\ CountOf(fr, "filter") = 0
                    /\ CountOf(to, "func") = 1
                    /\ to.log[Len(fr.log) + 1].op = "func"
      ]_vars

\* a call whose get returned the None an earlier call stored: it computed
\* func and is about to store over the entry
C18_Witness ==
    \E c \in Callers :
       /\ frame[c].pc = "L55"
       /\ GetGaveNone(frame[c])
       /\ CountOf(frame[c], "func") = 1
       /\ frame[c].final_cache_key \in DOMAIN cache
       /\ cache[frame[c].final_cache_key] = Entry(None, seconds)

-----------------------------------------------------------------------------
(* C19 *)

\* cache_filter raised on the value the get of this call returned
FilterRaisedOnHit(fr) ==
    \E i \in DOMAIN fr.log :
       /\ fr.log[i].op = "get"
       /\ i + 1 \in DOMAIN fr.log
       /\ fr.log[i + 1].op = "filter"
       /\ fr.log[i + 1].res = "raise"

\* Filter failure on a cached value is absorbed: a call in which cache_filter
\* raised on the value its get returned goes on at line 52 as after a miss;
\* the filter's error is never the call's outcome, and the finished call has
\* invoked func exactly once and its outcome is what func returned (or raised)
C19_FilterFailureAbsorbed ==
    \A c \in Callers :
       LET fr == frame[c]
       IN  FilterRaisedOnHit(fr)
              => /\ fr.pc \in {"L52", "L55", "done"}
                 /\ fr.outcome # Raised("TypeError")
                 /\ fr.pc = "L52" => CountOf(fr, "func") = 0
                 /\ Done(c) => /\ CountOf(fr, "func") = 1
                               /\ fr.outcome = FuncOutcomeOf(fr)

\* a finished call whose get returned a str another client stored: the
\* filter raised on it, func was invoked once and its value returned
C19_Witness ==
    \E c \in Callers :
       /\ Done(c)
       /\ FilterRaisedOnHit(frame[c])
       /\ OpsOf(frame[c], "get")[1].res = "'s'"
       /\ CountOf(frame[c], "func") = 1
       /\ frame[c].outcome = Returned("5")

====
